---- MODULE Spec2Model ----
(***************************************************************************)
(* Model of the hooks editor of mangobase's admin app (CollectionHooks,    *)
(* src/unnamed/part_001): the node/edge graph kept in React state, the     *)
(* handlers that edit it (onConnect, onEdgeUpdate, onEdgesChange,          *)
(* onNodesDelete, addHook), the Tree walk that resolves the before/after   *)
(* hook chains of every method, and the load / save coordination around    *)
(* collection.hooks(), collection.setHooks() and collection.setEditor().   *)
(*                                                                         *)
(* JavaScript values are modelled as follows.  Strings are TLA+ strings.   *)
(* The values null and undefined are the strings "null" and "undefined",   *)
(* which is also what a template literal prints for them.  An array is a   *)
(* sequence.  An object whose key order matters (a HooksConfig, which is   *)
(* compared through JSON.stringify) is a sequence of <<key, value>> pairs  *)
(* in insertion order.                                                     *)
(***************************************************************************)
EXTENDS Naturals, Sequences, FiniteSets, TLC

VARIABLES
    nodes,          \* useState<Node[]>: sequence of [id, hook]
    edges,          \* useState<Edge[]>: sequence of edge records
    flow,           \* useState<ReactFlowInstance>: TRUE once onInit has run
    existingHooks,  \* useState<HooksConfig>: <<>> (undefined) or <<config>>
    currentHooks,   \* useState<HooksConfig>: <<>> (undefined) or <<config>>
    editorLoad,     \* collection.editor() promise: "none", "pending", "done", "failed"
    hooksLoad,      \* collection.hooks() promise: "none", "pending", "done", "failed"
    savesInFlight,  \* collection.setHooks requests not yet settled: [cfg, applied]
    storeHooks,     \* the hook configuration the external store holds
    timer,          \* saveDebounce: TRUE iff a setTimeout is scheduled
    editorSaves     \* number of collection.setEditor requests outstanding

vars == <<nodes, edges, flow, existingHooks, currentHooks, editorLoad, hooksLoad,
          savesInFlight, storeHooks, timer, editorSaves>>

(***************************************************************************)
(* Bounds of the model.                                                    *)
(***************************************************************************)
MaxUnits == 2        \* hook nodes that can exist at once
MaxEdges == 2        \* edges that can exist at once (GraphSpec)
MaxSessionUnits == 1 \* hook nodes that can exist at once (Spec)
MaxSessionEdges == 2 \* edges that can exist at once (Spec)
MaxChain == 3        \* hook nodes of the graphs of ResolverSpec
MaxWired == 3        \* edges of the graphs of ResolverSpec
MaxSaves == 2        \* setHooks requests outstanding at once
MaxEditorSaves == 2  \* setEditor requests outstanding at once

Null == "null"
Undefined == "undefined"

ServiceId == "service"

\* The ids randomStr() can return: a pool of fresh names.
UnitPool == <<"u1", "u2", "u3", "u4">>

\* Hook ids the search widget can hand to addHook.
HookPool == <<"h1", "h2", "h3", "h4">>
HookIds == {HookPool[i] : i \in 1..MaxUnits}

\* METHODS of client/collection, in iteration order (a two-method prefix).
METHODS == <<"find", "get">>
MethodSet == {METHODS[i] : i \in 1..Len(METHODS)}

BeforeHandle(m) == "before-" \o m
AfterHandle(m) == "after-" \o m

\* The id of the single handle of each direction on a hook node.
UnitHandle == Null

Min(S) == CHOOSE x \in S : \A y \in S : x <= y

RECURSIVE Reverse(_)
Reverse(s) == IF s = <<>> THEN <<>> ELSE Append(Reverse(Tail(s)), Head(s))

RECURSIVE SelectSeq2(_, _)
\* Array.prototype.filter with a predicate given as a set of kept indices.
SelectSeq2(s, keep) ==
    IF s = <<>> THEN <<>>
    ELSE LET n == Len(s)
             front == SelectSeq2(SubSeq(s, 1, n - 1), keep)
         IN IF n \in keep THEN Append(front, s[n]) ELSE front

\* Array.prototype.find: the first element among the indices I that satisfy
\* the predicate, as <<>> or <<e>>.
Find(s, I) == IF I = {} THEN <<>> ELSE <<s[Min(I)]>>

Falsy(h) == h \in {Null, Undefined, ""}
OrEmpty(h) == IF Falsy(h) THEN "" ELSE h

(***************************************************************************)
(* Tree (lines 43-110).                                                    *)
(***************************************************************************)
CycleError == [ok |-> FALSE, out |-> <<>>]

\* this.nodes.find((node) => node.id === id), then node?.data.id
NodeDataId(ns, id) ==
    LET f == Find(ns, {i \in 1..Len(ns) : ns[i].id = id})
    IN IF f = <<>> THEN Undefined ELSE f[1].hook

ancestor(es, connection) ==
    Find(es, {i \in 1..Len(es) :
               es[i].source # ServiceId /\ es[i].target = connection.source})

descendant(es, connection) ==
    Find(es, {i \in 1..Len(es) :
               es[i].target # ServiceId /\ es[i].source = connection.target})

RECURSIVE AncestryWalk(_, _, _, _, _)
\* The while loop of ancestry: out collects [node?.data.id] of every yield.
AncestryWalk(es, ns, cur, visited, out) ==
    IF cur = <<>> THEN [ok |-> TRUE, out |-> out]
    ELSE IF cur[1].id \in visited THEN CycleError
    ELSE AncestryWalk(es, ns, ancestor(es, cur[1]), visited \cup {cur[1].id},
                      Append(out, <<NodeDataId(ns, cur[1].source)>>))

ancestry(es, ns, targetHandle) ==
    AncestryWalk(es, ns, Find(es, {i \in 1..Len(es) : es[i].targetHandle = targetHandle}),
                 {}, <<>>)

RECURSIVE DescentWalkEnds(_, _, _, _, _)
\* DescentWalk yielding the node of either end of every connection.
DescentWalkEnds(es, ns, cur, visited, out) ==
    IF cur = <<>> THEN [ok |-> TRUE, out |-> out]
    ELSE IF cur[1].id \in visited THEN CycleError
    ELSE DescentWalkEnds(es, ns, descendant(es, cur[1]), visited \cup {cur[1].id},
                         out \o << <<NodeDataId(ns, cur[1].source)>>,
                                   <<NodeDataId(ns, cur[1].target)>> >>)

RECURSIVE DescentWalk(_, _, _, _, _)
DescentWalk(es, ns, cur, visited, out) ==
    IF cur = <<>> THEN [ok |-> TRUE, out |-> out]
    ELSE IF cur[1].id \in visited THEN CycleError
    ELSE DescentWalk(es, ns, descendant(es, cur[1]), visited \cup {cur[1].id},
                     Append(out, <<NodeDataId(ns, cur[1].target)>>))

descent(es, ns, sourceHandle) ==
    DescentWalk(es, ns, Find(es, {i \in 1..Len(es) : es[i].sourceHandle = sourceHandle}),
                {}, <<>>)

RECURSIVE AncestryStepsCapped(_, _, _, _)
\* AncestrySteps with an iteration cap in the place of the visited set.
AncestryStepsCapped(es, cur, visited, n) ==
    IF cur = <<>> THEN n
    ELSE IF n > 2 * Len(es) THEN n + 1
    ELSE AncestryStepsCapped(es, ancestor(es, cur[1]), visited \cup {cur[1].id}, n + 1)

RECURSIVE AncestrySteps(_, _, _, _)
\* The number of times the body of the while loop of ancestry is entered,
\* the entry that throws included; n counts the entries so far.
AncestrySteps(es, cur, visited, n) ==
    IF cur = <<>> THEN n
    ELSE IF cur[1].id \in visited THEN n + 1
    ELSE AncestrySteps(es, ancestor(es, cur[1]), visited \cup {cur[1].id}, n + 1)

ancestrySteps(es, targetHandle) ==
    AncestrySteps(es, Find(es, {i \in 1..Len(es) : es[i].targetHandle = targetHandle}),
                  {}, 0)

RECURSIVE DescentSteps(_, _, _, _)
\* The same count for the while loop of descent.
DescentSteps(es, cur, visited, n) ==
    IF cur = <<>> THEN n
    ELSE IF cur[1].id \in visited THEN n + 1
    ELSE DescentSteps(es, descendant(es, cur[1]), visited \cup {cur[1].id}, n + 1)

descentSteps(es, sourceHandle) ==
    DescentSteps(es, Find(es, {i \in 1..Len(es) : es[i].sourceHandle = sourceHandle}),
                 {}, 0)

(***************************************************************************)
(* The resolve-hooks effect (lines 245-280).                               *)
(***************************************************************************)
\* BeforeChain with the reverse() forgotten.
BeforeChainUnreversed(es, ns, method) == ancestry(es, ns, BeforeHandle(method))

\* beforeHooks.reverse() of one method, or the thrown error.
BeforeChain(es, ns, method) ==
    LET r == ancestry(es, ns, BeforeHandle(method))
    IN IF r.ok THEN [ok |-> TRUE, out |-> Reverse(r.out)] ELSE r

\* AfterChain reversed like the before chain.
AfterChainReversed(es, ns, method) ==
    LET r == descent(es, ns, AfterHandle(method))
    IN IF r.ok THEN [ok |-> TRUE, out |-> Reverse(r.out)] ELSE r

\* afterHooks of one method, or the thrown error.
AfterChain(es, ns, method) == descent(es, ns, AfterHandle(method))

\* serviceHooks = { after: {}, before: {} }
EmptyServiceHooks == << <<"after", <<>> >>, <<"before", <<>> >> >>

Get(obj, key) ==
    LET f == Find(obj, {i \in 1..Len(obj) : obj[i][1] = key})
    IN IF f = <<>> THEN Undefined ELSE f[1][2]

\* obj[key] = value: an existing key keeps its place, a new one is appended.
Put(obj, key, value) ==
    IF \E i \in 1..Len(obj) : obj[i][1] = key
    THEN [i \in 1..Len(obj) |-> IF obj[i][1] = key THEN <<key, value>> ELSE obj[i]]
    ELSE Append(obj, <<key, value>>)

RECURSIVE ResolveLoop(_, _, _, _)
\* The for loop over METHODS from index i on: [ok, hooks], hooks being
\* serviceHooks as far as it was filled when the loop ended or threw.
ResolveLoop(es, ns, i, serviceHooks) ==
    IF i > Len(METHODS) THEN [ok |-> TRUE, hooks |-> serviceHooks]
    ELSE LET method == METHODS[i]
             b == BeforeChain(es, ns, method)
             withBefore == Put(serviceHooks, "before",
                               Put(Get(serviceHooks, "before"), method, b.out))
             a == AfterChain(es, ns, method)
             withAfter == Put(withBefore, "after",
                              Put(Get(withBefore, "after"), method, a.out))
         IN IF ~b.ok THEN [ok |-> FALSE, hooks |-> serviceHooks]
            ELSE IF ~a.ok THEN [ok |-> FALSE, hooks |-> withBefore]
            ELSE ResolveLoop(es, ns, i + 1, withAfter)

Resolve(es, ns) == ResolveLoop(es, ns, 1, EmptyServiceHooks)

\* ResolvedHooks with setCurrentHooks moved into a finally: what was filled
\* when a walk threw is stored.
ResolvedHooksPartial(es, ns, current) == <<Resolve(es, ns).hooks>>

\* The value of currentHooks after the effect ran on (es, ns): setCurrentHooks
\* is reached only when no walk threw; the catch only logs.
ResolvedHooks(es, ns, current) ==
    LET r == Resolve(es, ns) IN IF r.ok THEN <<r.hooks>> ELSE current

(***************************************************************************)
(* hooksChanged (lines 282-283): JSON.stringify of both configurations.    *)
(***************************************************************************)
RECURSIVE Join(_)
\* Array.prototype.join(",") of a sequence of strings.
Join(ss) ==
    IF ss = <<>> THEN ""
    ELSE IF Len(ss) = 1 THEN ss[1]
    ELSE ss[1] \o "," \o Join(Tail(ss))

Quote(str) == "\"" \o str \o "\""

\* A Hook is the array [node?.data.id]; undefined in an array prints as null.
StringifyHook(h) ==
    "[" \o (IF h[1] = Undefined THEN "null" ELSE Quote(h[1])) \o "]"

StringifyChain(c) ==
    "[" \o Join([i \in 1..Len(c) |-> StringifyHook(c[i])]) \o "]"

StringifyMethods(obj) ==
    "{" \o Join([i \in 1..Len(obj) |->
                   Quote(obj[i][1]) \o ":" \o StringifyChain(obj[i][2])]) \o "}"

\* JSON.stringify(hooks); JSON.stringify(undefined) is undefined.
Stringify(hooks) ==
    IF hooks = <<>> THEN Undefined
    ELSE "{" \o Join([i \in 1..Len(hooks[1]) |->
                   Quote(hooks[1][i][1]) \o ":" \o StringifyMethods(hooks[1][i][2])])
             \o "}"

HooksChanged(current, existing) == Stringify(current) # Stringify(existing)

hooksChanged == HooksChanged(currentHooks, existingHooks)

(***************************************************************************)
(* reactflow's graph utilities as the handlers use them.                   *)
(***************************************************************************)
NodeIds(ns) == {ns[i].id : i \in 1..Len(ns)}

\* getEdgeId: `reactflow__edge-${source}${sourceHandle || ''}-${target}${targetHandle || ''}`
getEdgeId(c) ==
    "reactflow__edge-" \o c.source \o OrEmpty(c.sourceHandle) \o "-"
        \o c.target \o OrEmpty(c.targetHandle)

SameHandle(a, b) == a = b \/ (Falsy(a) /\ Falsy(b))

connectionExists(edge, es) ==
    \E i \in 1..Len(es) :
        /\ es[i].source = edge.source
        /\ es[i].target = edge.target
        /\ SameHandle(es[i].sourceHandle, edge.sourceHandle)
        /\ SameHandle(es[i].targetHandle, edge.targetHandle)

EdgeOf(c) ==
    [id |-> getEdgeId(c), source |-> c.source, sourceHandle |-> c.sourceHandle,
     target |-> c.target, targetHandle |-> c.targetHandle]

addEdge(c, es) ==
    IF Falsy(c.source) \/ Falsy(c.target) THEN es
    ELSE IF connectionExists(EdgeOf(c), es) THEN es
    ELSE Append(es, EdgeOf(c))

updateEdge(oldEdge, c, es) ==
    IF Falsy(c.source) \/ Falsy(c.target) THEN es
    ELSE IF ~\E i \in 1..Len(es) : es[i].id = oldEdge.id THEN es
    ELSE Append(SelectSeq(es, LAMBDA e : e.id # oldEdge.id), EdgeOf(c))

getIncomers(node, ns, es) ==
    SelectSeq(ns, LAMBDA n : \E i \in 1..Len(es) :
                                 es[i].target = node.id /\ es[i].source = n.id)

getOutgoers(node, ns, es) ==
    SelectSeq(ns, LAMBDA n : \E i \in 1..Len(es) :
                                 es[i].source = node.id /\ es[i].target = n.id)

\* getConnectedEdges([node], es), as the set of the positions in es of the
\* edges it returns (the handler tests membership by object identity).
getConnectedEdges(node, es) ==
    {i \in 1..Len(es) : es[i].source = node.id \/ es[i].target = node.id}

(***************************************************************************)
(* The handlers' state updaters.                                           *)
(***************************************************************************)
\* onConnect (lines 158-172)
onConnect(connection, es) ==
    LET kept == SelectSeq(es, LAMBDA edge :
                   IF connection.source = ServiceId
                   THEN edge.sourceHandle # connection.sourceHandle
                   ELSE (edge.target \o "-" \o edge.targetHandle)
                            # (connection.target \o "-" \o connection.targetHandle))
    IN addEdge(connection, kept)

\* onEdgeUpdateStart, onEdgeUpdate, onEdgeUpdateEnd (lines 138-156) for an
\* edge dropped on a handle: edgeUpdateSuccessful is true again at the end.
onEdgeUpdate(oldEdge, newConnection, es) == updateEdge(oldEdge, newConnection, es)

\* onEdgeUpdateStart then onEdgeUpdateEnd, the edge dropped on no handle.
onEdgeUpdateEnd(edge, es) == SelectSeq(es, LAMBDA e : e.id # edge.id)

\* The edge onNodesDelete creates for an (incomer, outgoer) pair.
CreatedEdge(source, target) ==
    [id |-> source \o "->" \o target, source |-> source, sourceHandle |-> Undefined,
     target |-> target, targetHandle |-> Undefined]

RECURSIVE DeleteReduce(_, _, _, _)
\* deleted.reduce(..., edges): acc holds [orig, e], orig the position in the
\* edges of the closure the element came from, 0 for a created edge.
DeleteReduce(deleted, ns, es, acc) ==
    IF deleted = <<>> THEN acc
    ELSE LET node == Head(deleted)
             incomers == getIncomers(node, ns, es)
             outgoers == getOutgoers(node, ns, es)
             connectedEdges == getConnectedEdges(node, es)
             remainingEdges == SelectSeq(acc, LAMBDA x : x.orig \notin connectedEdges)
             no == Len(outgoers)
             createdEdges ==
                 [k \in 1..(Len(incomers) * no) |->
                     [orig |-> 0,
                      e |-> CreatedEdge(incomers[((k - 1) \div no) + 1].id,
                                        outgoers[((k - 1) % no) + 1].id)]]
         IN DeleteReduce(Tail(deleted), ns, es, remainingEdges \o createdEdges)

\* onNodesDelete (lines 174-199): the value handed to setEdges.
onNodesDelete(deleted, ns, es) ==
    LET acc == DeleteReduce(deleted, ns, es, [i \in 1..Len(es) |-> [orig |-> i, e |-> es[i]]])
    IN [i \in 1..Len(acc) |-> acc[i].e]

\* applyNodeChanges with the remove changes reactflow sends after onNodesDelete.
RemoveNodes(deleted, ns) ==
    SelectSeq(ns, LAMBDA n : \A i \in 1..Len(deleted) : deleted[i].id # n.id)

\* addHook (lines 206-216)
addHook(hookId, id, ns) == Append(ns, [id |-> id, hook |-> hookId])

(***************************************************************************)
(* What the user can do on the canvas.                                     *)
(***************************************************************************)
\* The handles a node renders: the service node one per method and
\* direction, a hook node one per direction.
SourceHandles(id) ==
    IF id = ServiceId THEN {AfterHandle(m) : m \in MethodSet} ELSE {UnitHandle}

TargetHandles(id) ==
    IF id = ServiceId THEN {BeforeHandle(m) : m \in MethodSet} ELSE {UnitHandle}

OutPorts(ns) == UNION {{<<id, h>> : h \in SourceHandles(id)} : id \in NodeIds(ns)}
InPorts(ns) == UNION {{<<id, h>> : h \in TargetHandles(id)} : id \in NodeIds(ns)}

Connection(sp, tp) ==
    [source |-> sp[1], sourceHandle |-> sp[2], target |-> tp[1], targetHandle |-> tp[2]]

\* Every connection the canvas lets the user draw: a source handle to a
\* target handle.
Connections(ns) == {Connection(sp, tp) : sp \in OutPorts(ns), tp \in InPorts(ns)}

\* The connections drawn in the sessions of Spec: from a hook node, to a
\* hook node or to the before handle of the first method.
SessionConnections(ns) ==
    {c \in Connections(ns) :
        /\ c.source # ServiceId
        /\ c.target = ServiceId => c.targetHandle = BeforeHandle(METHODS[1])}

OrNull(h) == IF Falsy(h) THEN Null ELSE h

\* Non-empty selections of nodes, in the order of the node array.
Selections(ns) ==
    {SelectSeq2(ns, keep) : keep \in (SUBSET (1..Len(ns))) \ {{}}}

\* randomStr(): a name no node carries (the first free one of the pool).
FreshId(ns) ==
    UnitPool[Min({i \in 1..Len(UnitPool) : UnitPool[i] \notin NodeIds(ns)})]

\* The choice of a hook no node on the canvas carries yet.
UnusedHook(ns) ==
    {HookPool[Min({i \in 1..Len(HookPool) :
                      \A k \in 1..Len(ns) : ns[k].hook # HookPool[i]})]}

initialNodes == <<[id |-> ServiceId, hook |-> Undefined]>>

(***************************************************************************)
(* Actions.  A handler that sets nodes or edges is followed, in the same   *)
(* step, by the effects that depend on them: the resolve effect and, once  *)
(* flow is set, the restart of the debounce timer.                         *)
(***************************************************************************)
GraphChange(es, ns) ==
    /\ edges' = es
    /\ nodes' = ns
    /\ currentHooks' = ResolvedHooks(es, ns, currentHooks)
    /\ timer' = (flow \/ timer)
    /\ UNCHANGED <<flow, existingHooks, editorLoad, hooksLoad, savesInFlight,
                   storeHooks, editorSaves>>

AddHook(maxUnits, choices) ==
    /\ Cardinality(NodeIds(nodes) \ {ServiceId}) < maxUnits
    /\ \E hookId \in choices :
           GraphChange(edges, addHook(hookId, FreshId(nodes), nodes))

Connect(maxEdges, connections) ==
    \E connection \in connections :
        LET es == onConnect(connection, edges)
        IN /\ Len(es) <= maxEdges
           /\ GraphChange(es, nodes)

\* An end of an edge dragged onto another handle: the other end stays.
EdgeUpdate ==
    \E i \in 1..Len(edges) :
        \/ \E tp \in InPorts(nodes) :
               GraphChange(onEdgeUpdate(edges[i],
                               Connection(<<edges[i].source, OrNull(edges[i].sourceHandle)>>, tp),
                               edges), nodes)
        \/ \E sp \in OutPorts(nodes) :
               GraphChange(onEdgeUpdate(edges[i],
                               Connection(sp, <<edges[i].target, OrNull(edges[i].targetHandle)>>),
                               edges), nodes)

\* An end of an edge dragged and dropped on no handle.
EdgeUpdateDropped ==
    \E i \in 1..Len(edges) : GraphChange(onEdgeUpdateEnd(edges[i], edges), nodes)

\* onEdgesChange (lines 132-136) with a remove change for a selected edge.
EdgesRemove ==
    \E i \in 1..Len(edges) :
        GraphChange(SelectSeq(edges, LAMBDA e : e.id # edges[i].id), nodes)

NodesDelete(maxEdges) ==
    \E deleted \in Selections(nodes) :
        LET es == onNodesDelete(deleted, nodes, edges)
        IN /\ Len(es) <= maxEdges
           /\ GraphChange(es, RemoveNodes(deleted, nodes))

\* The mounted component: first render, then the resolve effect; flow is
\* not set yet, so the two other effects returned early.
GraphInit ==
    /\ nodes = initialNodes
    /\ edges = <<>>
    /\ flow = FALSE
    /\ existingHooks = <<>>
    /\ currentHooks = ResolvedHooks(<<>>, initialNodes, <<>>)
    /\ editorLoad = "none"
    /\ hooksLoad = "none"
    /\ savesInFlight = <<>>
    /\ storeHooks = <<Resolve(<<>>, initialNodes).hooks>>
    /\ timer = FALSE
    /\ editorSaves = 0

GraphNext ==
    \/ AddHook(MaxUnits, HookIds)
    \/ Connect(MaxEdges, Connections(nodes))
    \/ EdgeUpdate
    \/ EdgeUpdateDropped
    \/ EdgesRemove
    \/ NodesDelete(MaxEdges)

\* Every edit of the canvas, from the mounted component.
GraphSpec == GraphInit /\ [][GraphNext]_vars

(***************************************************************************)
(* The session: onInit, the two loads, the save button.                    *)
(***************************************************************************)
\* What collection.editor() can answer: the editor state an earlier session
\* left in the store, the untouched canvas or one hook wired before find.
PersistedEditors ==
    {[nodes |-> initialNodes, edges |-> <<>>],
     [nodes |-> Append(initialNodes, [id |-> UnitPool[1], hook |-> HookPool[1]]),
      edges |-> <<EdgeOf(Connection(<<UnitPool[1], UnitHandle>>,
                                    <<ServiceId, BeforeHandle(METHODS[1])>>))>>]}

\* What the store can hold for collection.hooks() when the session starts:
\* the configurations of those editor states, or one hook before the
\* second method, saved by a session whose layout save was lost.
PersistedHooks ==
    {<<Resolve(e.edges, e.nodes).hooks>> : e \in PersistedEditors}
        \cup {<<Resolve(<<EdgeOf(Connection(<<UnitPool[1], UnitHandle>>,
                                            <<ServiceId, BeforeHandle(METHODS[2])>>))>>,
                        Append(initialNodes,
                               [id |-> UnitPool[1], hook |-> HookPool[1]])).hooks>>}

\* onInit (line 298): setFlow, then the load effect (lines 218-231) starts
\* both requests and the save-editor effect (lines 233-243) starts the timer.
OnInit ==
    /\ ~flow
    /\ flow' = TRUE
    /\ editorLoad' = "pending"
    /\ hooksLoad' = "pending"
    /\ timer' = TRUE
    /\ UNCHANGED <<nodes, edges, existingHooks, currentHooks, savesInFlight,
                   storeHooks, editorSaves>>

\* collection.editor() resolved: setNodes, setEdges (lines 224-228).
EditorLoaded ==
    /\ editorLoad = "pending"
    /\ editorLoad' = "done"
    /\ \E editor \in PersistedEditors :
           /\ edges' = editor.edges
           /\ nodes' = editor.nodes
           /\ currentHooks' = ResolvedHooks(editor.edges, editor.nodes, currentHooks)
    /\ timer' = TRUE
    /\ UNCHANGED <<flow, existingHooks, hooksLoad, savesInFlight, storeHooks, editorSaves>>

\* collection.hooks() resolved: setExistingHooks(hooks) (line 230).
HooksLoaded ==
    /\ hooksLoad = "pending"
    /\ hooksLoad' = "done"
    /\ existingHooks' = storeHooks
    /\ UNCHANGED <<nodes, edges, flow, currentHooks, editorLoad, savesInFlight,
                   storeHooks, timer, editorSaves>>

\* Either request rejected: no handler is attached, no state changes.
LoadFailed ==
    /\ \/ editorLoad = "pending" /\ editorLoad' = "failed" /\ UNCHANGED hooksLoad
       \/ hooksLoad = "pending" /\ hooksLoad' = "failed" /\ UNCHANGED editorLoad
    /\ UNCHANGED <<nodes, edges, flow, existingHooks, currentHooks, savesInFlight,
                   storeHooks, timer, editorSaves>>

\* The save button (lines 307-313) is clickable unless disabled.
SaveEnabled == hooksChanged

\* saveHooks up to its await (lines 201-202): the request carries the
\* currentHooks of the render the click happened in.
SaveHooks ==
    /\ SaveEnabled
    /\ currentHooks # <<>>
    /\ Len(savesInFlight) < MaxSaves
    /\ savesInFlight' = Append(savesInFlight, [cfg |-> currentHooks[1], applied |-> FALSE])
    /\ UNCHANGED <<nodes, edges, flow, existingHooks, currentHooks, editorLoad,
                   hooksLoad, storeHooks, timer, editorSaves>>

RemoveAt(s, i) == SelectSeq2(s, (1..Len(s)) \ {i})

\* The store takes a setHooks request in.
StoreApplies ==
    \E i \in 1..Len(savesInFlight) :
        /\ ~savesInFlight[i].applied
        /\ storeHooks' = <<savesInFlight[i].cfg>>
        /\ savesInFlight' = [savesInFlight EXCEPT ![i].applied = TRUE]
        /\ UNCHANGED <<nodes, edges, flow, existingHooks, currentHooks, editorLoad,
                       hooksLoad, timer, editorSaves>>

\* saveHooks after its await (line 203): setExistingHooks(currentHooks), the
\* currentHooks of the closure.
\* SaveResolvedAt reading the state of the latest render instead of the
\* closure of the click.
SaveResolvedLatest(i) ==
    /\ savesInFlight[i].applied
    /\ existingHooks' = currentHooks
    /\ savesInFlight' = RemoveAt(savesInFlight, i)
    /\ UNCHANGED <<nodes, edges, flow, currentHooks, editorLoad, hooksLoad,
                   storeHooks, timer, editorSaves>>

SaveResolvedAt(i) ==
    /\ savesInFlight[i].applied
    /\ existingHooks' = <<savesInFlight[i].cfg>>
    /\ savesInFlight' = RemoveAt(savesInFlight, i)
    /\ UNCHANGED <<nodes, edges, flow, currentHooks, editorLoad, hooksLoad,
                   storeHooks, timer, editorSaves>>

SaveResolved == \E i \in 1..Len(savesInFlight) : SaveResolvedAt(i)

\* collection.setHooks rejected: saveHooks throws at its await.
SaveFailedAt(i) ==
    /\ savesInFlight' = RemoveAt(savesInFlight, i)
    /\ UNCHANGED <<nodes, edges, flow, existingHooks, currentHooks, editorLoad,
                   hooksLoad, storeHooks, timer, editorSaves>>

SaveFailed == \E i \in 1..Len(savesInFlight) : SaveFailedAt(i)

Init ==
    /\ nodes = initialNodes
    /\ edges = <<>>
    /\ flow = FALSE
    /\ existingHooks = <<>>
    /\ currentHooks = ResolvedHooks(<<>>, initialNodes, <<>>)
    /\ editorLoad = "none"
    /\ hooksLoad = "none"
    /\ savesInFlight = <<>>
    /\ storeHooks \in PersistedHooks
    /\ timer = FALSE
    /\ editorSaves = 0

Next ==
    \/ OnInit
    \/ EditorLoaded
    \/ HooksLoaded
    \/ LoadFailed
    \/ SaveHooks
    \/ StoreApplies
    \/ SaveResolved
    \/ SaveFailed
    \/ AddHook(MaxSessionUnits, UnusedHook(nodes))
    \/ Connect(MaxSessionEdges, SessionConnections(nodes))
    \/ EdgesRemove
    \/ NodesDelete(MaxSessionEdges)

\* The session around the hook configuration: mount, loads, edits, saves.
Spec == Init /\ [][Next]_vars

(***************************************************************************)
(* The layout save: the debounce timer of the save-editor effect (lines    *)
(* 233-243) and the setEditor requests it sends, over the mount, the two   *)
(* loads and the edits of the canvas.                                      *)
(***************************************************************************)
\* The timeout elapses (lines 240-242): collection.setEditor(flow.toObject())
\* is sent; its promise is not awaited.
TimerFires ==
    /\ timer
    /\ editorSaves < MaxEditorSaves
    /\ timer' = FALSE
    /\ editorSaves' = editorSaves + 1
    /\ UNCHANGED <<nodes, edges, flow, existingHooks, currentHooks, editorLoad,
                   hooksLoad, savesInFlight, storeHooks>>

\* A setEditor request settles, resolved or rejected: nothing is attached
\* to its promise.
EditorSaveSettled ==
    /\ editorSaves > 0
    /\ editorSaves' = editorSaves - 1
    /\ UNCHANGED <<nodes, edges, flow, existingHooks, currentHooks, editorLoad,
                   hooksLoad, savesInFlight, storeHooks, timer>>

LayoutNext ==
    \/ OnInit
    \/ EditorLoaded
    \/ HooksLoaded
    \/ LoadFailed
    \/ TimerFires
    \/ EditorSaveSettled
    \/ AddHook(MaxSessionUnits, UnusedHook(nodes))
    \/ Connect(MaxSessionEdges, SessionConnections(nodes))
    \/ EdgesRemove
    \/ NodesDelete(MaxSessionEdges)

LayoutSpec == GraphInit /\ [][LayoutNext]_vars

(***************************************************************************)
(* The resolver as a function of the graph.  Init draws the graph: the     *)
(* service node and MaxChain hook nodes, and any list of at most MaxWired  *)
(* edges between their handles.  Every such list is one the handlers can   *)
(* build: onConnect appends an edge on a free target handle, onEdgeUpdate  *)
(* then moves its two ends anywhere, and never evicts.  The one action is  *)
(* the resolve effect running on that graph.                               *)
(***************************************************************************)
ChainNodes ==
    initialNodes \o [i \in 1..MaxChain |-> [id |-> UnitPool[i], hook |-> HookPool[i]]]

WiredEdges == {EdgeOf(c) : c \in Connections(ChainNodes)}

ResolverInit ==
    /\ nodes = ChainNodes
    /\ edges \in UNION {[1..k -> WiredEdges] : k \in 0..MaxWired}
    /\ flow = FALSE
    /\ existingHooks = <<>>
    /\ currentHooks = ResolvedHooks(<<>>, initialNodes, <<>>)
    /\ editorLoad = "none"
    /\ hooksLoad = "none"
    /\ savesInFlight = <<>>
    /\ storeHooks = <<Resolve(<<>>, initialNodes).hooks>>
    /\ timer = FALSE
    /\ editorSaves = 0

ResolveEffect == GraphChange(edges, nodes)

ResolverSpec == ResolverInit /\ [][ResolveEffect]_vars

(***************************************************************************)
(* The change detector as a function of its two inputs.  Init draws        *)
(* currentHooks as the resolve effect builds it (keys after, before; the   *)
(* methods in the order of METHODS) and the answer of collection.hooks()   *)
(* as a HooksConfig with its keys in any order; the one action is the      *)
(* arrival of that answer, after which hooksChanged compares the two.      *)
(***************************************************************************)
\* The before chains the inputs carry: none, one hook, two hooks both ways.
DetectorChains ==
    {<<>>, << <<HookPool[1]>> >>, << <<HookPool[1]>>, <<HookPool[2]>> >>,
     << <<HookPool[2]>>, <<HookPool[1]>> >>}

\* The orders a two-key object can list its keys in.
KeyOrders(a, b) == {<<a, b>>, <<b, a>>}

\* The object with the keys in the order given, key k holding value[k].
ObjectOf(order, value) == [i \in 1..Len(order) |-> <<order[i], value[order[i]]>>]

\* A HooksConfig: top the order of before/after, mb and ma the orders of
\* the methods under them, chains the before chain of every method.
ConfigOf(top, mb, ma, chains) ==
    ObjectOf(top, [k \in {"before", "after"} |->
                     IF k = "before" THEN ObjectOf(mb, chains)
                     ELSE ObjectOf(ma, [m \in MethodSet |-> <<>>])])

ResolvedConfigs ==
    {ConfigOf(<<"after", "before">>, METHODS, METHODS, chains) :
        chains \in [MethodSet -> DetectorChains]}

StoredConfigs ==
    {ConfigOf(top, mb, ma, chains) :
        top \in KeyOrders("after", "before"),
        mb \in KeyOrders(METHODS[1], METHODS[2]),
        ma \in KeyOrders(METHODS[1], METHODS[2]),
        chains \in [MethodSet -> DetectorChains]}

DetectorInit ==
    /\ nodes = initialNodes
    /\ edges = <<>>
    /\ flow = TRUE
    /\ existingHooks = <<>>
    /\ currentHooks \in {<<c>> : c \in ResolvedConfigs}
    /\ editorLoad = "done"
    /\ hooksLoad = "pending"
    /\ savesInFlight = <<>>
    /\ storeHooks \in {<<c>> : c \in StoredConfigs}
    /\ timer = FALSE
    /\ editorSaves = 0

DetectorSpec == DetectorInit /\ [][HooksLoaded]_vars

(***************************************************************************)
(* Vocabulary of the properties.                                           *)
(***************************************************************************)
Idx(es) == 1..Len(es)

UnitsOf(ns) == NodeIds(ns) \ {ServiceId}

\* Edges (positions) on the input port of a hook node, on the input port
\* before-m of the service node, on the output port after-m of the service.
IntoUnit(es, id) == {i \in Idx(es) : es[i].target = id}
IntoBefore(es, m) ==
    {i \in Idx(es) : es[i].target = ServiceId /\ es[i].targetHandle = BeforeHandle(m)}
OutOfAfter(es, m) ==
    {i \in Idx(es) : es[i].source = ServiceId /\ es[i].sourceHandle = AfterHandle(m)}
OutOfUnit(es, id) == {i \in Idx(es) : es[i].source = id}

AtMostOne(S) == Cardinality(S) <= 1

PortArity(es, ns) ==
    /\ \A id \in UnitsOf(ns) : AtMostOne(IntoUnit(es, id))
    /\ \A m \in MethodSet : AtMostOne(IntoBefore(es, m))
    /\ \A m \in MethodSet : AtMostOne(OutOfAfter(es, m))

\* Sequences of distinct hook nodes of ns.
Paths(ns) ==
    {p \in UNION {[1..k -> UnitsOf(ns)] : k \in 1..Cardinality(UnitsOf(ns))} :
        \A i, j \in 1..Len(p) : i # j => p[i] # p[j]}

HooksAlong(p, ns) == [j \in 1..Len(p) |-> <<NodeDataId(ns, p[j])>>]

\* p[k] -> ... -> p[2] -> p[1] -> service.before-m, every input on the way
\* holding that one edge and nothing entering p[k].
LinearBefore(p, m, es) ==
    /\ Cardinality({i \in Idx(es) : es[i].targetHandle = BeforeHandle(m)}) = 1
    /\ \E i \in IntoBefore(es, m) : es[i].source = p[1]
    /\ \A j \in 1..(Len(p) - 1) :
           /\ Cardinality(IntoUnit(es, p[j])) = 1
           /\ \A i \in IntoUnit(es, p[j]) : es[i].source = p[j + 1]
    /\ IntoUnit(es, p[Len(p)]) = {}

\* service.after-m -> p[1] -> p[2] -> ... -> p[k], no output on the way
\* fanning out and nothing leaving p[k].
LinearAfter(p, m, es) ==
    /\ Cardinality({i \in Idx(es) : es[i].sourceHandle = AfterHandle(m)}) = 1
    /\ \E i \in OutOfAfter(es, m) : es[i].target = p[1]
    /\ \A j \in 1..(Len(p) - 1) :
           /\ Cardinality(OutOfUnit(es, p[j])) = 1
           /\ \A i \in OutOfUnit(es, p[j]) : es[i].target = p[j + 1]
    /\ OutOfUnit(es, p[Len(p)]) = {}

RECURSIVE BackClosure(_, _)
\* The hook nodes reached from S by following edges backwards, never
\* through the service node.
BackClosure(S, es) ==
    LET T == S \cup {es[i].source : i \in {k \in Idx(es) :
                         es[k].target \in S /\ es[k].source # ServiceId}}
    IN IF T = S THEN S ELSE BackClosure(T, es)

Preds(n, es) ==
    {es[i].source : i \in {k \in Idx(es) : es[k].target = n /\ es[k].source # ServiceId}}

OnCycle(n, es) == n \in BackClosure(Preds(n, es), es)

\* A directed cycle of hook nodes is reached walking backwards from before-m.
CycleBehindBefore(m, es) ==
    \E n \in BackClosure({es[i].source : i \in IntoBefore(es, m)} \ {ServiceId}, es) :
        OnCycle(n, es)

ResolutionFails(es, ns) == ~Resolve(es, ns).ok

(***************************************************************************)
(* Properties.                                                             *)
(***************************************************************************)
\* C1: in every reachable state every input port holds at most one edge
\* and every service output port after-<method> holds at most one edge.
C1_PortArity == PortArity(edges, nodes)

\* C2: last connection wins.  After a connect the target port of the
\* connection, and its source port when that is a service output, holds
\* exactly one edge, the one the call created.
C2_LastConnectionWins ==
    [][\A c \in Connections(nodes) :
          LET onTarget == IF c.target = ServiceId
                          THEN {i \in Idx(edges') : edges'[i].target = ServiceId
                                    /\ edges'[i].targetHandle = c.targetHandle}
                          ELSE IntoUnit(edges', c.target)
              onSource == {i \in Idx(edges') : edges'[i].source = ServiceId
                               /\ edges'[i].sourceHandle = c.sourceHandle}
          IN (nodes' = nodes /\ edges' = onConnect(c, edges)) =>
                 /\ Cardinality(onTarget) = 1
                 /\ \A i \in onTarget : edges'[i] = EdgeOf(c)
                 /\ c.source = ServiceId =>
                        /\ Cardinality(onSource) = 1
                        /\ \A i \in onSource : edges'[i] = EdgeOf(c)
      ]_vars

\* C3: for a linear graph p[k] -> ... -> p[1] -> service.before-m the
\* before chain of m is hook(p[k]), ..., hook(p[1]).
C3_BeforeOrder ==
    \A m \in MethodSet : \A p \in Paths(nodes) :
        LinearBefore(p, m, edges) =>
            BeforeChain(edges, nodes, m)
                = [ok |-> TRUE, out |-> Reverse(HooksAlong(p, nodes))]

C3_Witness ==
    /\ \E p \in Paths(nodes) : Len(p) >= 3 /\ LinearBefore(p, "get", edges)
    /\ currentHooks # <<>>
    /\ Len(Get(Get(currentHooks[1], "before"), "get")) >= 3

\* C4: for a linear graph service.after-m -> p[1] -> ... -> p[k] the after
\* chain of m is hook(p[1]), ..., hook(p[k]).
C4_AfterOrder ==
    \A m \in MethodSet : \A p \in Paths(nodes) :
        LinearAfter(p, m, edges) =>
            AfterChain(edges, nodes, m) = [ok |-> TRUE, out |-> HooksAlong(p, nodes)]

C4_Witness ==
    /\ \E p \in Paths(nodes) : Len(p) >= 3 /\ LinearAfter(p, "get", edges)
    /\ currentHooks # <<>>
    /\ Len(Get(Get(currentHooks[1], "after"), "get")) >= 3

\* The nodes with their id in the place of data.id: resolving over them
\* yields the chain of node ids instead of hook ids.
AsIds(ns) == [i \in 1..Len(ns) |-> [id |-> ns[i].id, hook |-> ns[i].id]]

\* The hook chain of a chain of node ids, the node d left out.
ChainWithout(idChain, d, ns) ==
    LET rest == SelectSeq(idChain, LAMBDA h : h[1] # d)
    IN [j \in 1..Len(rest) |-> <<NodeDataId(ns, rest[j][1])>>]

OneInOneOut(id, es) ==
    /\ Cardinality(IntoUnit(es, id)) = 1
    /\ Cardinality(OutOfUnit(es, id)) = 1
    /\ IntoUnit(es, id) # OutOfUnit(es, id)

\* C5: deleting a hook node with exactly one incomer and one outgoer leaves
\* every before and after chain as it was, the deleted node's hook left out.
C5_DeletePreservesChains ==
    [][\A k \in 1..Len(nodes) :
          LET node == nodes[k]
          IN (/\ node.id # ServiceId
              /\ OneInOneOut(node.id, edges)
              /\ ~ResolutionFails(edges, nodes)
              /\ nodes' = RemoveNodes(<<node>>, nodes)
              /\ edges' = onNodesDelete(<<node>>, nodes, edges))
             => \A m \in MethodSet :
                    /\ BeforeChain(edges', nodes', m)
                         = [ok |-> TRUE,
                            out |-> ChainWithout(BeforeChain(edges, AsIds(nodes), m).out,
                                                 node.id, nodes)]
                    /\ AfterChain(edges', nodes', m)
                         = [ok |-> TRUE,
                            out |-> ChainWithout(AfterChain(edges, AsIds(nodes), m).out,
                                                 node.id, nodes)]
      ]_vars

\* C6: whenever a directed cycle is reached walking backwards from the
\* service input before-m of some method, resolution fails with the cycle error.
C6_CycleDetectionComplete ==
    \A m \in MethodSet : CycleBehindBefore(m, edges) => ResolutionFails(edges, nodes)

\* C7: a cycle error aborts the whole resolution.  currentHooks is the
\* configuration of the current graph whenever that graph resolves, and a
\* step to a graph that fails to resolve leaves currentHooks as it was, so
\* it stays the last successfully resolved configuration.
C7_CycleKeepsLastResolved ==
    /\ [](~ResolutionFails(edges, nodes) => currentHooks = <<Resolve(edges, nodes).hooks>>)
    /\ [][ResolutionFails(edges', nodes') => currentHooks' = currentHooks]_vars

\* The second method's walk threw after the first method was processed,
\* and currentHooks still holds an earlier, non-empty configuration.
C7_Witness ==
    /\ ResolutionFails(edges, nodes)
    /\ Len(Get(Resolve(edges, nodes).hooks, "before")) >= 1
    /\ currentHooks # ResolvedHooks(<<>>, initialNodes, <<>>)

\* C8: a graph that fails to resolve blocks saving.  Stated for the
\* sessions whose persisted configuration has loaded, the case the claim
\* singles out: whenever the current graph fails resolution, save is disabled.
C8_CycleBlocksSave ==
    (hooksLoad = "done" /\ ResolutionFails(edges, nodes)) => ~SaveEnabled

\* C9: as long as the persisted configuration has not loaded (the request
\* is not sent yet, pending or failed), save is disabled and no setHooks
\* request has been issued.
C9_NoSaveBeforeLoad ==
    hooksLoad # "done" => (~SaveEnabled /\ savesInFlight = <<>>)

\* C10: while a setHooks request is in flight save is disabled, so never
\* two are in flight.  Stated for the sessions whose persisted configuration
\* has loaded before the first save.
C10_OneSaveInFlight ==
    (hooksLoad = "done" /\ savesInFlight # <<>>) =>
        (~SaveEnabled /\ Len(savesInFlight) <= 1)

\* C11: a successful save re-baselines.  The step that completes a
\* setHooks request the store accepted sets existingHooks to the
\* configuration that request carried, and if currentHooks is still that
\* configuration (no edit since the click) hooksChanged is false afterwards;
\* the step that fails a request leaves existingHooks alone and a dirty
\* editor dirty.
C11_SaveRebaselines ==
    [][\A i \in 1..Len(savesInFlight) :
          /\ SaveResolvedAt(i) =>
                 /\ existingHooks' = <<savesInFlight[i].cfg>>
                 /\ currentHooks = <<savesInFlight[i].cfg>>
                        => ~HooksChanged(currentHooks', existingHooks')
          /\ SaveFailedAt(i) =>
                 /\ existingHooks' = existingHooks
                 /\ hooksChanged => HooksChanged(currentHooks', existingHooks')
      ]_vars

\* The persisted configuration never arrived, so existingHooks was set by a
\* completed save, and the editor is idle on it.
C11_Witness ==
    /\ hooksLoad = "failed"
    /\ existingHooks # <<>>
    /\ existingHooks = currentHooks
    /\ savesInFlight = <<>>
    /\ ~hooksChanged

\* C18: the baseline tracks the store.  Once the persisted configuration
\* has loaded, whenever no setHooks request is in flight existingHooks is
\* the configuration the store holds.
C18_BaselineTracksStore ==
    (hooksLoad = "done" /\ savesInFlight = <<>>) => existingHooks = storeHooks

\* C12: at most one layout save is pending or in flight: never a scheduled
\* timer together with an outstanding setEditor request, never two
\* outstanding requests (the timer itself is a single slot).
C12_OneLayoutSave == (IF timer THEN 1 ELSE 0) + editorSaves <= 1

\* C19: no setEditor request is sent before collection.editor() has
\* resolved and set nodes and edges.
C19_NoLayoutSaveBeforeLoad ==
    [][editorSaves' > editorSaves => editorLoad = "done"]_vars

\* The step of onConnect called with connection c.
ConnectStep(c) == GraphChange(onConnect(c, edges), nodes)

\* The step of a deletion of the selected nodes.
NodesDeleteStep(deleted) ==
    GraphChange(onNodesDelete(deleted, nodes, edges), RemoveNodes(deleted, nodes))

\* C13: exactly one node with id 'service' is on the canvas in every
\* reachable state.
C13_OneServiceNode ==
    Cardinality({i \in 1..Len(nodes) : nodes[i].id = ServiceId}) = 1

\* C14: a connect whose source node is its target node is rejected: the
\* edges after the call are the edges before it.
C14_RejectedConnectNoChange ==
    [][\A c \in Connections(nodes) :
          (c.source = c.target /\ ConnectStep(c)) => edges' = edges]_vars

\* C20: after a deletion of hook nodes, one or several in the same call,
\* no edge has a deleted node as its source or target.
C20_NoDanglingEdges ==
    [][\A deleted \in Selections(nodes) :
          (NodesDeleteStep(deleted)
              /\ \A k \in 1..Len(deleted) : deleted[k].id # ServiceId) =>
              \A i \in 1..Len(edges') : \A k \in 1..Len(deleted) :
                  /\ edges'[i].source # deleted[k].id
                  /\ edges'[i].target # deleted[k].id]_vars

\* The keys of an object, and two configurations with the same keys at
\* both levels and the same chain under every method.
Keys(obj) == {obj[i][1] : i \in 1..Len(obj)}

SameContent(a, b) ==
    /\ Keys(a) = Keys(b)
    /\ \A k \in Keys(a) :
           /\ Keys(Get(a, k)) = Keys(Get(b, k))
           /\ \A m \in Keys(Get(a, k)) : Get(Get(a, k), m) = Get(Get(b, k), m)

\* C15: hooksChanged reports no difference exactly when both
\* configurations have the same keys and, under every method, the same
\* hook sequence, whatever the order of the keys in either value.
C15_KeyOrderInsensitive ==
    hooksLoad = "done" =>
        (hooksChanged <=> ~SameContent(currentHooks[1], existingHooks[1]))

NoDuplicate(s) == \A i, j \in 1..Len(s) : i # j => s[i] # s[j]

\* Some hook node on the after chain of m has two or more outgoing edges.
FanOutOnAfter(m, es, ns) ==
    \E id \in UnitsOf(ns) :
        /\ Cardinality(OutOfUnit(es, id)) >= 2
        /\ \E j \in 1..Len(AfterChain(es, AsIds(ns), m).out) :
               AfterChain(es, AsIds(ns), m).out[j] = <<id>>

\* C16: no node is duplicated.  Every chain a walk returns without the
\* cycle error holds every node of the graph at most once, whatever the
\* number of edges leaving an output.
C16_NoDuplicateNode ==
    \A m \in MethodSet :
        /\ BeforeChain(edges, AsIds(nodes), m).ok
               => NoDuplicate(BeforeChain(edges, AsIds(nodes), m).out)
        /\ AfterChain(edges, AsIds(nodes), m).ok
               => NoDuplicate(AfterChain(edges, AsIds(nodes), m).out)

\* The effect has resolved a graph whose after chain of find runs through
\* a hook node with fan-out and holds two nodes or more.
C16_Witness ==
    /\ ~ResolutionFails(edges, nodes)
    /\ currentHooks = <<Resolve(edges, nodes).hooks>>
    /\ FanOutOnAfter("find", edges, nodes)
    /\ Len(Get(Get(currentHooks[1], "after"), "find")) >= 2

\* C17: resolution terminates.  For every method the ancestry walk and the
\* descent walk enter their loop at most |edges| + 1 times.
C17_WalksTerminate ==
    \A m \in MethodSet :
        /\ ancestrySteps(edges, BeforeHandle(m)) <= Len(edges) + 1
        /\ descentSteps(edges, AfterHandle(m)) <= Len(edges) + 1

\* A cycle through every edge of the graph: the walk throws on its
\* (|edges| + 1)-th entry, and the effect has left currentHooks alone.
C17_Witness ==
    /\ Len(edges) = MaxWired
    /\ ancestrySteps(edges, BeforeHandle("find")) = Len(edges) + 1
    /\ ResolutionFails(edges, nodes)
    /\ currentHooks = ResolvedHooks(<<>>, initialNodes, <<>>)

====
